---- MODULE Spec2Model ----
(***************************************************************************)
(* Risk-gated order executor and market-close watchdog of                  *)
(* src/order_executor.py: check_risk_limits, place_order,                  *)
(* auto_square_off_positions and market_close_watchdog, run as coroutines  *)
(* of one asyncio event loop over one database connection.                 *)
(*                                                                         *)
(* A coroutine runs without interruption up to an await that really        *)
(* suspends.  The broker client (kite) and the database connection are     *)
(* synchronous; `await self.check_risk_limits(...)` runs a coroutine that  *)
(* holds no suspending await.  The suspension points are therefore the     *)
(* telegram sends and asyncio.sleep, and each action below is the code     *)
(* between two of them.                                                    *)
(*                                                                         *)
(* Times are seconds since midnight.  entry_price, stop_loss and target    *)
(* are written to the row as passed and never read back by the executor;   *)
(* they are left out of the rows.                                          *)
(*                                                                         *)
(* The computations that touch no order are modelled as operators, each    *)
(* applied by an action of a specification of its own:                     *)
(* calculate_position_size (src/order_executor.py), validate_signal        *)
(* (src/nifty_strategy.py) and generate_composite_signal                   *)
(* (src/scripts/indicators.py).                                            *)
(***************************************************************************)
EXTENDS Integers, Sequences, FiniteSets, TLC

-----------------------------------------------------------------------------
(* RiskManagementRules *)

MAX_DAILY_LOSS_INR == 20000
MAX_TRADES_PER_DAY == 3
MAX_OPEN_POSITIONS == 4
MARKET_CLOSE == 55800
AUTO_SQUARE_OFF_TIME == 55740
WATCHDOG_SLEEP == 60
MAX_POSITION_SIZE == 1
(* 0.02 and 0.25, as numerator and denominator *)
MAX_RISK_PER_TRADE == <<2, 100>>
KELLY_MULTIPLIER == <<25, 100>>
(* NIFTYStrategyEngine(min_signal_score = 70) *)
DEFAULT_MIN_SIGNAL_SCORE == 70

(* PositionStatus / account literal used by place_order and the watchdog *)
OPEN == "OPEN"
CLOSED == "CLOSED"
ACCOUNT_ID == "ACCOUNT_ID"
NULL == "NULL"

-----------------------------------------------------------------------------
(* Bounds of the model *)

MaxCalls == 2        \* place_order calls made during the modelled part of the day
MaxInitOpen == 2     \* positions already open when the model starts
NumCallers == 2      \* place_order coroutines that may be in flight together
MaxLegFaults == 1    \* legs of one square-off whose exit or UPDATE raises
MaxLag == 2          \* seconds by which a wake-up may follow the 60 s pause
StartSpan == 2       \* the watchdog starts up to StartSpan s before 15:29:00
MaxBalance == 8      \* account balances range over -50 * MaxBalance .. 50 * MaxBalance
MaxPrice == 3        \* entry and stop prices range over 1 .. MaxPrice
MaxSeries == 4       \* price series for calculate_rsi have 0 .. MaxSeries samples

Callers == 1..NumCallers

(* Inputs of place_order: (symbol, quantity, side) *)
OrderInputs ==
    { [symbol |-> "NIFTY_CE", quantity |-> 1, side |-> "BUY"],
      [symbol |-> "NIFTY_PE", quantity |-> 2, side |-> "SELL"] }

-----------------------------------------------------------------------------
VARIABLES
    account_default,    \* schema: value an INSERT that omits account_id leaves in the column
    positions_is_view,  \* schema: `positions` is a view over `trades` / a table of its own
    paper_trading,      \* self.paper_trading
    min_signal_score,   \* self.min_signal_score of the strategy engine
    trades,             \* committed rows of table trades
    positions_table,    \* committed rows of table positions (when it is a table)
    broker_entries,     \* entry orders accepted by kite.place_order, in order
    broker_exits,       \* exit orders accepted by kite.place_order, in order
    telegram,           \* number of messages delivered by telegram.send_message
    next_id,            \* next order id / row id
    calls,              \* place_order calls started so far
    pc,                 \* per caller: "idle" or "notify" (suspended in the telegram send)
    order,              \* per caller: the (order_id, symbol) it is about to return
    risk_check,         \* outcome of check_risk_limits in the latest place_order
    result,             \* outcome of the latest finished place_order
    wd_pc,              \* watchdog: "check", "notify" (square-off telegram send), "sleep"
    now,                \* watchdog: local `now` of the latest loop iteration
    wd_start,           \* time of the watchdog's first check
    wd_invoked,         \* the latest check called auto_square_off_positions
    window_checks,      \* checks so far that fell in the square-off window
    sq_pending,         \* squared_off list of the square-off suspended in its send
    sq_result,          \* outcome of the latest finished auto_square_off_positions
    sq_log,             \* logger.error lines of the latest square-off: (position id, call that raised)
    calc                \* the latest call of a computation that touches no order: arguments and outcome

schema == <<account_default, positions_is_view, paper_trading, min_signal_score>>
ledger == <<trades, positions_table>>
callers == <<calls, pc, order, risk_check, result>>
watchdog == <<wd_pc, now, wd_start, wd_invoked, window_checks, sq_pending, sq_result,
              sq_log>>
broker == <<broker_entries, broker_exits>>
vars == <<schema, ledger, broker, telegram, next_id, callers, watchdog, calc>>

-----------------------------------------------------------------------------
(* The ledger *)

(* order id: the broker's in live mode, f"PAPER_{timestamp}" in paper mode *)
OrderId(n) == <<IF paper_trading THEN "PAPER" ELSE "KITE", n>>

(* a row of trades / positions; today: DATE(entry_time) = CURRENT_DATE,
   exited: exit_time IS NOT NULL *)
Row(id, order_id, acct, symbol, quantity, today, status, exited, pnl) ==
    [id |-> id, order_id |-> order_id, account_id |-> acct, symbol |-> symbol,
     quantity |-> quantity, today |-> today, status |-> status,
     exited |-> exited, pnl |-> pnl]

RECURSIVE SumPnl(_)
SumPnl(S) ==
    IF S = {} THEN 0
    ELSE LET r == CHOOSE x \in S : TRUE IN r.pnl + SumPnl(S \ {r})

(* rows the statement `... FROM positions` ranges over *)
Positions == IF positions_is_view THEN trades ELSE positions_table

(* SELECT COALESCE(SUM(pnl),0) FROM trades WHERE account_id = %s
   AND DATE(entry_time) = CURRENT_DATE AND exit_time IS NOT NULL *)
DailyPnl(account) ==
    SumPnl({r \in trades : r.account_id = account /\ r.today /\ r.exited})

(* SELECT COUNT FROM trades WHERE account_id = %s AND DATE(entry_time) = CURRENT_DATE *)
TradeCount(account) ==
    Cardinality({r \in trades : r.account_id = account /\ r.today})

(* SELECT ... FROM positions WHERE account_id = %s AND status = 'OPEN' *)
OpenPositions(account) ==
    {r \in Positions : r.account_id = account /\ r.status = OPEN}

(* the daily-loss comparison made non-strict the wrong way round *)
IsAllowed_LossBoundary(daily_pnl, trade_count, open_positions) ==
    /\ daily_pnl >= -MAX_DAILY_LOSS_INR
    /\ trade_count < MAX_TRADES_PER_DAY
    /\ open_positions < MAX_OPEN_POSITIONS

IsAllowed(daily_pnl, trade_count, open_positions) ==
    /\ daily_pnl > -MAX_DAILY_LOSS_INR
    /\ trade_count < MAX_TRADES_PER_DAY
    /\ open_positions < MAX_OPEN_POSITIONS

CircuitBreakerHit(daily_pnl) == daily_pnl <= -MAX_DAILY_LOSS_INR

(* the dict check_risk_limits returns when the three queries succeed *)
RiskSnapshot(daily_pnl, trade_count, open_positions) ==
    [allowed |-> IsAllowed(daily_pnl, trade_count, open_positions),
     daily_pnl |-> daily_pnl,
     daily_loss_remaining |-> MAX_DAILY_LOSS_INR + daily_pnl,
     trades_remaining |-> MAX_TRADES_PER_DAY - trade_count,
     position_slots_remaining |-> MAX_OPEN_POSITIONS - open_positions,
     circuit_breaker_hit |-> CircuitBreakerHit(daily_pnl)]

CheckRiskLimits(account) ==
    RiskSnapshot(DailyPnl(account), TradeCount(account),
                 Cardinality(OpenPositions(account)))

-----------------------------------------------------------------------------
(* Initial state: the executor has been constructed over an existing ledger *)

(* trades placed and closed earlier today, with their realised pnl; the
   account_id is the one their INSERT left *)
InitClosedRow(i, pnl) ==
    Row(100 + i, <<"KITE", 100 + i>>, account_default,
        IF i % 2 = 1 THEN "NIFTY_CE" ELSE "NIFTY_PE", 1, TRUE, CLOSED, TRUE, pnl)

InitClosed == {InitClosedRow(1, 1), InitClosedRow(2, -1), InitClosedRow(3, -20000)}

(* the ledger after 0, 1, 2 or 3 of those trades *)
InitClosedSoFar == {{r \in InitClosed : r.id <= 100 + k} : k \in 0..MAX_TRADES_PER_DAY}

(* positions carried over from an earlier day, long and short *)
InitOpenRow(i, acct) ==
    Row(200 + i, <<"KITE", 200 + i>>, acct,
        IF i % 2 = 1 THEN "NIFTY_CE" ELSE "NIFTY_PE",
        IF i % 2 = 1 THEN 1 ELSE -1, FALSE, OPEN, FALSE, 0)

(* in the view schema the open positions are rows of trades *)
InitLedger(closed, n) ==
    IF positions_is_view
    THEN /\ trades = closed \cup {InitOpenRow(i, account_default) : i \in 1..n}
         /\ positions_table = {}
    ELSE /\ trades = closed
         /\ positions_table = {InitOpenRow(i, ACCOUNT_ID) : i \in 1..n}

NoRisk == [outcome |-> "none"]
NoResult == [status |-> "NONE"]
NoCalc == [op |-> "none"]

InitSchema ==
    /\ account_default \in {ACCOUNT_ID, NULL}
    /\ positions_is_view \in BOOLEAN
    /\ paper_trading \in BOOLEAN
    /\ min_signal_score = DEFAULT_MIN_SIGNAL_SCORE

(* no order sent, no message sent, no place_order in flight; `made` calls
   were made before *)
InitExecutor(made) ==
    /\ broker_entries = <<>>
    /\ broker_exits = <<>>
    /\ telegram = 0
    /\ next_id = 1
    /\ calls = made
    /\ pc = [c \in Callers |-> "idle"]
    /\ order = [c \in Callers |-> <<>>]
    /\ risk_check = NoRisk
    /\ result = NoResult
    /\ calc = NoCalc

(* market_close_watchdog is at its first read of the clock / is not started *)
InitWatchdog(started) ==
    /\ wd_pc = IF started THEN "check" ELSE "off"
    /\ now \in IF started
               THEN (AUTO_SQUARE_OFF_TIME - StartSpan)..AUTO_SQUARE_OFF_TIME
               ELSE {0}
    /\ wd_start = now
    /\ wd_invoked = FALSE
    /\ window_checks = 0
    /\ sq_pending = <<>>
    /\ sq_result = NoResult
    /\ sq_log = {}

(* the executor and the watchdog together: one place_order call is made
   while the watchdog runs *)
Init ==
    /\ InitSchema
    /\ \E n \in {0, MaxInitOpen} : InitLedger({}, n)
    /\ InitExecutor(MaxCalls - 1)
    /\ InitWatchdog(TRUE)

(* place_order calls, watchdog not started *)
InitOrders ==
    /\ InitSchema
    /\ \E closed \in InitClosedSoFar, n \in {0, MaxInitOpen} : InitLedger(closed, n)
    /\ InitExecutor(0)
    /\ InitWatchdog(FALSE)

(* the watchdog alone *)
InitWatchdogOnly ==
    /\ InitSchema
    /\ \E n \in 0..MaxInitOpen : InitLedger({}, n)
    /\ InitExecutor(MaxCalls)
    /\ InitWatchdog(TRUE)

(* check_risk_limits over ledgers around each of its three limits *)
InitRisk ==
    /\ InitSchema
    /\ \E closed \in SUBSET InitClosed, n \in 0..(MAX_OPEN_POSITIONS + 1) :
         InitLedger(closed, n)
    /\ InitExecutor(0)
    /\ InitWatchdog(FALSE)

-----------------------------------------------------------------------------
(* check_risk_limits called on its own *)

CheckRiskLimitsCall ==
    /\ \/ risk_check' = [outcome |-> "raised"]
       \/ risk_check' = [outcome |-> "ok", snapshot |-> CheckRiskLimits(ACCOUNT_ID)]
    /\ UNCHANGED <<schema, ledger, broker, telegram, next_id, calls, pc, order,
                   result, watchdog, calc>>

-----------------------------------------------------------------------------
(* place_order *)

(* the gate's result ignored *)
PassesGate_Ignored(snapshot) == TRUE

(* `if not risk_check['allowed']: raise HTTPException(403, ...)` *)
PassesGate(snapshot) == snapshot.allowed

(* str(e) of the exception caught by `except Exception as e` *)
RiskCheckFailed == <<500, "Risk check failed">>
TradingNotAllowed(snapshot) ==
    <<403, "Trading not allowed. Circuit breaker", snapshot.circuit_breaker_hit>>
BrokerError == <<"kite.place_order raised">>
LedgerError == <<"INSERT or commit raised">>
TelegramError == <<"telegram.send_message raised">>

(* `raise HTTPException(status_code=500, detail=f"Order placement failed: {str(e)}")` *)
OrderPlacementFailed(e) ==
    [status |-> "FAILED", status_code |-> 500,
     detail |-> <<"Order placement failed", e>>]

Receipt(o) == [status |-> "PLACED", order_id |-> o.order_id, symbol |-> o.symbol]

(* the call ends in the except clause, before any suspension *)
PlaceOrderRaises(rc, e) ==
    /\ risk_check' = rc
    /\ result' = OrderPlacementFailed(e)
    /\ UNCHANGED <<pc, order>>

(* the entry order sent in paper mode too *)
BrokerAfterEntry_AlwaysLive(o) ==
    Append(broker_entries, [kind |-> "ENTRY", order_id |-> OrderId(next_id),
                            symbol |-> o.symbol, side |-> o.side,
                            quantity |-> o.quantity])

(* kite.place_order(...) unless paper trading *)
BrokerAfterEntry(o) ==
    IF paper_trading THEN broker_entries
    ELSE Append(broker_entries, [kind |-> "ENTRY", order_id |-> OrderId(next_id),
                         symbol |-> o.symbol, side |-> o.side,
                         quantity |-> o.quantity])

(* INSERT INTO trades (order_id, symbol, quantity, entry_price, entry_time,
   stop_loss, target, status, pnl): account_id is not among the columns *)
InsertedTrade(o) ==
    Row(next_id, OrderId(next_id), account_default, o.symbol, o.quantity,
        TRUE, OPEN, FALSE, 0)

(* place_order from its start to its first suspension or its exception *)
PlaceOrder(c) ==
    /\ pc[c] = "idle"
    /\ calls < MaxCalls
    /\ calls' = calls + 1
    /\ UNCHANGED <<schema, positions_table, broker_exits, telegram, watchdog, calc>>
    /\ \E o \in OrderInputs :
       LET snapshot == CheckRiskLimits(ACCOUNT_ID)
           checked == [outcome |-> "ok", snapshot |-> snapshot]
       IN
       \/ \* a query of check_risk_limits raises
          /\ PlaceOrderRaises([outcome |-> "raised"], RiskCheckFailed)
          /\ UNCHANGED <<trades, broker_entries, next_id>>
       \/ \* the gate rejects
          /\ ~PassesGate(snapshot)
          /\ PlaceOrderRaises(checked, TradingNotAllowed(snapshot))
          /\ UNCHANGED <<trades, broker_entries, next_id>>
       \/ \* the broker call raises
          /\ PassesGate(snapshot)
          /\ ~paper_trading
          /\ PlaceOrderRaises(checked, BrokerError)
          /\ UNCHANGED <<trades, broker_entries, next_id>>
       \/ \* the order is placed, the INSERT or the commit raises
          /\ PassesGate(snapshot)
          /\ broker_entries' = BrokerAfterEntry(o)
          /\ next_id' = next_id + 1
          /\ PlaceOrderRaises(checked, LedgerError)
          /\ UNCHANGED trades
       \/ \* the order is placed and recorded; the telegram send suspends
          /\ PassesGate(snapshot)
          /\ broker_entries' = BrokerAfterEntry(o)
          /\ next_id' = next_id + 1
          /\ trades' = trades \cup {InsertedTrade(o)}
          /\ risk_check' = checked
          /\ order' = [order EXCEPT ![c] =
                         <<[order_id |-> OrderId(next_id), symbol |-> o.symbol]>>]
          /\ pc' = [pc EXCEPT ![c] = "notify"]
          /\ UNCHANGED result

(* place_order from the end of the telegram send to its return or exception *)
PlaceOrderNotify(c) ==
    /\ pc[c] = "notify"
    /\ pc' = [pc EXCEPT ![c] = "idle"]
    /\ order' = [order EXCEPT ![c] = <<>>]
    /\ UNCHANGED <<schema, ledger, broker, next_id, calls, risk_check, watchdog, calc>>
    /\ \/ /\ telegram' = telegram + 1
          /\ result' = Receipt(order[c][1])
       \/ /\ telegram' = telegram
          /\ result' = OrderPlacementFailed(TelegramError)

-----------------------------------------------------------------------------
(* auto_square_off_positions and market_close_watchdog *)

(* the window closed one comparison too early *)
InWindow_OpenEnd(t) == AUTO_SQUARE_OFF_TIME <= t /\ t < MARKET_CLOSE

(* AUTO_SQUARE_OFF_TIME <= now <= MARKET_CLOSE *)
InWindow(t) == AUTO_SQUARE_OFF_TIME <= t /\ t <= MARKET_CLOSE

Abs(q) == IF q < 0 THEN -q ELSE q

(* the exit sent on the side the position was entered on *)
ExitSide_Entry(q) == IF q > 0 THEN "BUY" ELSE "SELL"

(* OrderSide.SELL if position['quantity'] > 0 else OrderSide.BUY *)
ExitSide(q) == IF q > 0 THEN "SELL" ELSE "BUY"

ExitOrder(p) ==
    [kind |-> "EXIT", position |-> p.id, symbol |-> p.symbol,
     side |-> ExitSide(p.quantity), quantity |-> Abs(p.quantity)]

(* cursor.fetchall(): the rows, here in the order of their ids *)
RECURSIVE FetchAll(_)
FetchAll(S) ==
    IF S = {} THEN <<>>
    ELSE LET r == CHOOSE x \in S : \A y \in S : x.id <= y.id
         IN <<r>> \o FetchAll(S \ {r})

(* what can happen to one leg of the loop: the exit call raises, the UPDATE
   raises after the exit was sent, or the leg is closed; paper trading makes
   no exit call *)
LegOutcomes ==
    IF paper_trading THEN {"closed", "update_raises"}
    ELSE {"closed", "exit_raises", "update_raises"}

(* the exit orders the loop sends to the broker *)
RECURSIVE ExitsSent(_, _)
ExitsSent(legs, f) ==
    IF legs = <<>> \/ paper_trading THEN <<>>
    ELSE (IF f[Head(legs).id] = "exit_raises" THEN <<>>
          ELSE <<ExitOrder(Head(legs))>>) \o ExitsSent(Tail(legs), f)

(* every leg listed, the failed ones too *)
RECURSIVE SquaredOff_All(_, _)
SquaredOff_All(legs, f) ==
    IF legs = <<>> THEN <<>>
    ELSE <<Head(legs).symbol>> \o SquaredOff_All(Tail(legs), f)

(* the list squared_off the loop builds *)
RECURSIVE SquaredOff(_, _)
SquaredOff(legs, f) ==
    IF legs = <<>> THEN <<>>
    ELSE (IF f[Head(legs).id] = "closed" THEN <<Head(legs).symbol>>
          ELSE <<>>) \o SquaredOff(Tail(legs), f)

(* UPDATE positions SET status = 'CLOSED', exit_time = now WHERE id = %s *)
MarkClosed(rows, ids) ==
    { IF r.id \in ids THEN [r EXCEPT !.status = CLOSED, !.exited = TRUE] ELSE r
      : r \in rows }

SquareOffFailed == [status |-> "FAILED", status_code |-> 500,
                    detail |-> "Auto square-off failed"]
SquareOffReturn(squared_off) ==
    [status |-> "OK", squared_off |-> squared_off, count |-> Len(squared_off)]

(* `logger.error(f"Failed to square off {position['symbol']}: {str(e)}")`:
   the legs whose try block raised, with the call that raised *)
LoggedFailures(f) == {<<id, f[id]>> : id \in {i \in DOMAIN f : f[i] # "closed"}}

(* `logger.error(f"Auto square-off failed: {str(e)}")`: the call that ended
   the square-off as a whole; such a line carries no position id *)
LoggedCallFailure(what) == <<0, what>>

(* an exception of auto_square_off_positions left to end the watchdog *)
WatchdogOnException_Uncaught == "stopped"

(* `except Exception as e: logger.error(...)` of market_close_watchdog: the
   loop goes on to asyncio.sleep *)
WatchdogOnException == "sleep"

(* auto_square_off_positions from its start to its telegram send, its
   return or its exception *)
AutoSquareOff(account) ==
    \/ \* the SELECT raises
       /\ sq_result' = SquareOffFailed
       /\ wd_pc' = WatchdogOnException
       /\ sq_log' = {LoggedCallFailure("select_raises")}
       /\ UNCHANGED <<ledger, broker, sq_pending>>
    \/ \E f \in [{p.id : p \in OpenPositions(account)} -> LegOutcomes],
          commit_ok \in BOOLEAN :
         /\ Cardinality({id \in DOMAIN f : f[id] # "closed"}) <= MaxLegFaults
         /\ LET legs == FetchAll(OpenPositions(account))
               closed_ids == {id \in DOMAIN f : f[id] = "closed"}
               squared_off == SquaredOff(legs, f)
           IN
           /\ broker_exits' = broker_exits \o ExitsSent(legs, f)
           /\ sq_log' = LoggedFailures(f) \cup
                          (IF commit_ok THEN {} ELSE {LoggedCallFailure("commit_raises")})
           /\ UNCHANGED broker_entries
           /\ IF ~commit_ok
              THEN /\ sq_result' = SquareOffFailed
                   /\ wd_pc' = WatchdogOnException
                   /\ UNCHANGED <<ledger, sq_pending>>
              ELSE /\ IF positions_is_view
                      THEN /\ trades' = MarkClosed(trades, closed_ids)
                           /\ UNCHANGED positions_table
                      ELSE /\ positions_table' = MarkClosed(positions_table, closed_ids)
                           /\ UNCHANGED trades
                   /\ IF squared_off # <<>>
                      THEN /\ sq_pending' = squared_off
                           /\ wd_pc' = "notify"
                           /\ UNCHANGED sq_result
                      ELSE /\ sq_result' = SquareOffReturn(squared_off)
                           /\ wd_pc' = "sleep"
                           /\ UNCHANGED sq_pending

(* one iteration of the watchdog loop, from the read of `now` to the
   square-off's suspension or to asyncio.sleep *)
WatchdogCheck ==
    /\ wd_pc = "check"
    /\ UNCHANGED <<schema, telegram, next_id, callers, now, wd_start, calc>>
    /\ IF InWindow(now)
       THEN /\ wd_invoked' = TRUE
            /\ window_checks' = window_checks + 1
            /\ AutoSquareOff(ACCOUNT_ID)
       ELSE /\ wd_invoked' = FALSE
            /\ wd_pc' = "sleep"
            /\ UNCHANGED <<ledger, broker, window_checks, sq_pending, sq_result,
                           sq_log>>

(* auto_square_off_positions from the end of its telegram send on *)
SquareOffNotify ==
    /\ wd_pc = "notify"
    /\ sq_pending' = <<>>
    /\ UNCHANGED <<schema, ledger, broker, next_id, callers, now, wd_start,
                   wd_invoked, window_checks, calc>>
    /\ \/ /\ telegram' = telegram + 1
          /\ sq_result' = SquareOffReturn(sq_pending)
          /\ wd_pc' = "sleep"
          /\ UNCHANGED sq_log
       \/ /\ telegram' = telegram
          /\ sq_result' = SquareOffFailed
          /\ wd_pc' = WatchdogOnException
          /\ sq_log' = sq_log \cup {LoggedCallFailure("send_raises")}

(* asyncio.sleep(60) returns and the loop reads the clock: at least 60 s
   after the previous read, later by the time the iteration took and by the
   time the event loop was busy.  The model follows the watchdog to its
   first check after the close. *)
WatchdogWake ==
    /\ wd_pc = "sleep"
    /\ now <= MARKET_CLOSE
    /\ \E lag \in 0..MaxLag : now' = now + WATCHDOG_SLEEP + lag
    /\ wd_pc' = "check"
    /\ UNCHANGED <<schema, ledger, broker, telegram, next_id, callers,
                   wd_start, wd_invoked, window_checks, sq_pending, sq_result,
                   sq_log, calc>>

-----------------------------------------------------------------------------
(* calculate_position_size.  Balances and prices are whole rupees and whole
   points: on such inputs the float arithmetic of the code gives the same
   integers as the exact arithmetic below. *)

Symbols == {"NIFTY_CE", "NIFTY_PE"}
Balances == {50 * b : b \in (0 - MaxBalance)..MaxBalance}
Prices == 1..MaxPrice

(* int(a / b) for b > 0: Python's int() drops the fraction, towards zero *)
TruncDiv(a, b) == IF a >= 0 THEN a \div b ELSE 0 - ((0 - a) \div b)

(* SELECT COUNT as total_trades, SUM(CASE WHEN pnl > 0 ...) as winning_trades
   FROM trades WHERE symbol = %s AND entry within the last 30 days; every row
   of the modelled ledger is that recent.  SUM over no row is NULL. *)
TotalTrades(symbol) == Cardinality({r \in trades : r.symbol = symbol})
WinningTrades(symbol) == Cardinality({r \in trades : r.symbol = symbol /\ r.pnl > 0})

(* `x or 1` *)
OrOne(x) == IF x = 0 THEN 1 ELSE x

(* win_rate = winning_trades / total_trades, as numerator and denominator *)
WinRate(symbol) == <<OrOne(WinningTrades(symbol)), OrOne(TotalTrades(symbol))>>

(* the except clause made to return no lot at all *)
PositionSizeOnError_Zero == [outcome |-> "returned", size |-> 0]

(* `except Exception as e: logger.error(...); return 1` *)
PositionSizeOnError == [outcome |-> "returned", size |-> 1]

(* position_size = int(risk_amount / points_at_risk), with
   risk_amount = account_balance * MAX_RISK_PER_TRADE *)
PositionSize(account_balance, points_at_risk) ==
    TruncDiv(account_balance * MAX_RISK_PER_TRADE[1],
             MAX_RISK_PER_TRADE[2] * points_at_risk)

(* the Kelly factor taken as a half *)
KellyAdjusted_Half(position_size) == TruncDiv(position_size * 50, 100)

(* kelly_adjusted = int(position_size * KELLY_MULTIPLIER) *)
KellyAdjusted(position_size) ==
    TruncDiv(position_size * KELLY_MULTIPLIER[1], KELLY_MULTIPLIER[2])

(* the cap left out *)
FinalSize_Uncapped(kelly_adjusted) == kelly_adjusted

(* final_size = min(kelly_adjusted, MAX_POSITION_SIZE) *)
FinalSize(kelly_adjusted) ==
    IF kelly_adjusted <= MAX_POSITION_SIZE THEN kelly_adjusted ELSE MAX_POSITION_SIZE

(* the whole function: the query, the division (ZeroDivisionError when
   entry_price = stop_loss_price) and the two truncations inside one try *)
CalculatePositionSize(readable, entry_price, stop_loss_price, account_balance) ==
    IF ~readable \/ entry_price = stop_loss_price
    THEN PositionSizeOnError
    ELSE [outcome |-> "returned",
          size |-> FinalSize(KellyAdjusted(
                      PositionSize(account_balance,
                                   Abs(entry_price - stop_loss_price))))]

(* the size scaled by the symbol's win rate before the Kelly factor *)
CalculatePositionSizeCall_ByWinRate ==
    /\ \E symbol \in Symbols, entry_price \in Prices, stop_loss_price \in Prices,
          account_balance \in Balances, readable \in BOOLEAN :
          calc' = [op |-> "calculate_position_size", symbol |-> symbol,
                   entry_price |-> entry_price, stop_loss_price |-> stop_loss_price,
                   account_balance |-> account_balance, readable |-> readable,
                   win_rate |-> IF readable THEN WinRate(symbol) ELSE <<>>,
                   result |->
                     IF ~readable \/ entry_price = stop_loss_price
                     THEN PositionSizeOnError
                     ELSE [outcome |-> "returned",
                           size |-> FinalSize(KellyAdjusted(TruncDiv(
                                      PositionSize(account_balance,
                                                   Abs(entry_price - stop_loss_price))
                                        * WinRate(symbol)[1],
                                      WinRate(symbol)[2])))]]
    /\ UNCHANGED <<schema, ledger, broker, telegram, next_id, callers, watchdog>>

CalculatePositionSizeCall ==
    /\ \E symbol \in Symbols, entry_price \in Prices, stop_loss_price \in Prices,
          account_balance \in Balances, readable \in BOOLEAN :
          calc' = [op |-> "calculate_position_size", symbol |-> symbol,
                   entry_price |-> entry_price, stop_loss_price |-> stop_loss_price,
                   account_balance |-> account_balance, readable |-> readable,
                   win_rate |-> IF readable THEN WinRate(symbol) ELSE <<>>,
                   result |-> CalculatePositionSize(readable, entry_price,
                                                    stop_loss_price, account_balance)]
    /\ UNCHANGED <<schema, ledger, broker, telegram, next_id, callers, watchdog>>

-----------------------------------------------------------------------------
(* NIFTYStrategyEngine.validate_signal of src/nifty_strategy.py *)

(* datetime.now().time(): hour, minute, second, microsecond *)
ClockTimes ==
    [hour : {9, 15, 16}, minute : {0, 20, 44, 45, 59}, second : {0, 1, 59},
     microsecond : {0, 5}]

(* the signals the generators build: strategy, score, entry price, target *)
Signals ==
    [strategy : {"ATM_CALL", "IRON_CONDOR"}, signal_score : {50, 100},
     entry_price : {2}, target : {1, 2, 3}]

(* str(t) of a datetime.time: "HH:MM:SS", and "HH:MM:SS.ffffff" when the
   microsecond is not 0; kept as the sequence of its numeric fields *)
TimeStr(t) ==
    IF t.microsecond = 0 THEN <<t.hour, t.minute, t.second>>
    ELSE <<t.hour, t.minute, t.second, t.microsecond>>

(* datetime.strptime(text, "%H:%M:%S"), as seconds since midnight: text
   left over after the seconds raises ValueError *)
Strptime(text) ==
    IF Len(text) = 3
    THEN [ok |-> TRUE, seconds |-> text[1] * 3600 + text[2] * 60 + text[3]]
    ELSE [ok |-> FALSE]

(* datetime.strptime("09:15", "%H:%M").time() and ("15:30", ...) *)
SignalMarketOpen == [hour |-> 9, minute |-> 15, second |-> 0, microsecond |-> 0]
SignalMarketClose == [hour |-> 15, minute |-> 30, second |-> 0, microsecond |-> 0]

Returned(value) == [outcome |-> "returned", value |-> value]

(* validate_signal has no try block: the ValueError reaches the caller *)
StrptimeFailed == [outcome |-> "raised", error |-> "ValueError"]

(* `if signal.strategy == Strategy.ATM_CALL: if signal.target <= signal.entry_price` *)
TargetBelowEntry(signal) ==
    signal.strategy = "ATM_CALL" /\ signal.target <= signal.entry_price

ValidateSignal(signal, t) ==
    LET n == Strptime(TimeStr(t))
        open == Strptime(TimeStr(SignalMarketOpen))
        close == Strptime(TimeStr(SignalMarketClose))
    IN  IF ~n.ok THEN StrptimeFailed
        ELSE IF n.seconds - open.seconds < 1800 THEN Returned(FALSE)
        ELSE IF Abs(close.seconds - n.seconds) < 1800 THEN Returned(FALSE)
        ELSE IF TargetBelowEntry(signal) THEN Returned(FALSE)
        ELSE Returned(TRUE)

ValidateSignalCall ==
    /\ \E signal \in Signals, t \in ClockTimes :
          calc' = [op |-> "validate_signal", signal |-> signal, now |-> t,
                   result |-> ValidateSignal(signal, t)]
    /\ UNCHANGED <<schema, ledger, broker, telegram, next_id, callers, watchdog>>

-----------------------------------------------------------------------------
(* TechnicalIndicators.generate_composite_signal of src/scripts/indicators.py.
   The weights are kept in hundredths (0.20 is 20), so total_score and
   confidence are in hundredths of a point: 50 is 5000, 100 is 10000.  The
   float sums of the code differ from these exact values by rounding only,
   and no sum lies within half a point of a threshold. *)

Weights ==
    [rsi |-> 20, macd |-> 25, bollinger |-> 15, supertrend |-> 20, ema |-> 20]

(* what the five indicators read: rsi; macd and its signal line (the
   histogram is their difference); the Bollinger position in hundredths of
   the band; the supertrend direction; the EMA crossover signal *)
IndicatorReadings ==
    [rsi : {29, 30, 70, 71}, macd : {0, 1}, macd_signal : {0, 1},
     position : {10, 20, 80, 90}, direction : {1, -1},
     ema : {"BUY", "SELL", "NEUTRAL"}]

RsiSignal(rsi) ==
    IF rsi < 30 THEN <<"rsi", 100, "OVERSOLD">>
    ELSE IF rsi > 70 THEN <<"rsi", -100, "OVERBOUGHT">>
    ELSE <<"rsi", 0, "NEUTRAL">>

MacdSignal(macd, macd_signal) ==
    LET histogram == macd - macd_signal
    IN  IF histogram > 0 /\ macd > macd_signal THEN <<"macd", 80, "BULLISH">>
        ELSE IF histogram < 0 /\ macd < macd_signal THEN <<"macd", -80, "BEARISH">>
        ELSE <<"macd", 0, "NEUTRAL">>

BollingerSignal(position) ==
    IF position < 20 THEN <<"bollinger", 70, "OVERSOLD">>
    ELSE IF position > 80 THEN <<"bollinger", -70, "OVERBOUGHT">>
    ELSE <<"bollinger", 0, "NEUTRAL">>

SupertrendSignal(direction) ==
    IF direction = 1 THEN <<"supertrend", 90, "BUY">>
    ELSE <<"supertrend", -90, "SELL">>

EmaSignal(ema) ==
    IF ema = "BUY" THEN <<"ema", 85, "BUY">>
    ELSE IF ema = "SELL" THEN <<"ema", -85, "SELL">>
    ELSE <<"ema", 0, "NEUTRAL">>

(* the list `signals`, in the order of the appends *)
CompositeSignals(x) ==
    <<RsiSignal(x.rsi), MacdSignal(x.macd, x.macd_signal),
      BollingerSignal(x.position), SupertrendSignal(x.direction),
      EmaSignal(x.ema)>>

(* sum(score * weights.get(indicator, 0) for indicator, score, _ in signals) *)
RECURSIVE TotalScore(_)
TotalScore(signals) ==
    IF signals = <<>> THEN 0
    ELSE Head(signals)[2] * Weights[Head(signals)[1]] + TotalScore(Tail(signals))

Min(a, b) == IF a <= b THEN a ELSE b

(* the NEUTRAL confidence taken as the size of the score *)
CompositeDecision_NeutralBySize(total_score) ==
    IF total_score >= 50 * 100
    THEN [action |-> "BUY", confidence |-> Min(total_score, 100 * 100)]
    ELSE IF total_score <= -50 * 100
    THEN [action |-> "SELL", confidence |-> Min(Abs(total_score), 100 * 100)]
    ELSE [action |-> "NEUTRAL", confidence |-> Abs(total_score)]

(* `if total_score >= 50: ... elif total_score <= -50: ... else: ...` *)
CompositeDecision(total_score) ==
    IF total_score >= 50 * 100
    THEN [action |-> "BUY", confidence |-> Min(total_score, 100 * 100)]
    ELSE IF total_score <= -50 * 100
    THEN [action |-> "SELL", confidence |-> Min(Abs(total_score), 100 * 100)]
    ELSE [action |-> "NEUTRAL", confidence |-> 100 * 100 - Abs(total_score)]

GenerateCompositeSignal(x) ==
    LET signals == CompositeSignals(x)
        total_score == TotalScore(signals)
        decision == CompositeDecision(total_score)
    IN  [signals |-> signals, total_score |-> total_score,
         action |-> decision.action, confidence |-> decision.confidence]

GenerateCompositeSignalCall ==
    /\ \E x \in IndicatorReadings :
          calc' = [op |-> "generate_composite_signal", readings |-> x,
                   result |-> GenerateCompositeSignal(x)]
    /\ UNCHANGED <<schema, ledger, broker, telegram, next_id, callers, watchdog>>

-----------------------------------------------------------------------------
(* generate_atm_call_signal and generate_iron_condor_signal of
   src/nifty_strategy.py.  The spot is in whole points; the prices of a
   signal are in hundredths of a point, so that entry = spot * 1.01 is the
   integer spot * 101. *)

(* thresholds the engine may be constructed with *)
MinSignalScores == {-20, 0, DEFAULT_MIN_SIGNAL_SCORE, 85}

Spots == {150, 22010, 25050, 30000}

(* round(x / 100) of Python 3: to the nearest integer, a half to the even one *)
RoundHundreds(x) ==
    LET q == x \div 100
        r == x % 100
    IN  IF r < 50 THEN q
        ELSE IF r > 50 THEN q + 1
        ELSE IF q % 2 = 0 THEN q ELSE q + 1

(* atm_strike = int(round(nifty_price / 100) * 100) *)
AtmStrike(nifty_price) == RoundHundreds(nifty_price) * 100

(* the threshold test made strict *)
MeetsThreshold_Strict(score) == score > min_signal_score

(* `if score >= self.min_signal_score` *)
MeetsThreshold(score) == score >= min_signal_score

NoSignal == [outcome |-> "none"]

(* the three additions to the score of generate_atm_call_signal; the slope
   of np.polyfit over the last 5 prices is in tenths *)
AtmCallRsiScore(rsi) ==
    IF 30 < rsi /\ rsi < 70 THEN 25 ELSE IF rsi < 30 THEN 35 ELSE 0

AtmCallMacdScore(macd_line, macd_signal) ==
    IF macd_line > macd_signal /\ macd_line > 0 THEN 25
    ELSE IF macd_line > macd_signal THEN 15 ELSE 0

AtmCallTrendScore(history_len, slope10) ==
    IF history_len >= 5
    THEN (IF slope10 > 0 THEN 25 ELSE IF slope10 < -1 THEN -15 ELSE 0)
    ELSE 0

AtmCallScore(x) ==
    AtmCallRsiScore(x.rsi) + AtmCallMacdScore(x.macd_line, x.macd_signal)
      + AtmCallTrendScore(x.history_len, x.slope10)

AtmCallSignal(nifty_price, score) ==
    [strategy |-> "ATM_CALL", symbol |-> "NIFTY", signal_score |-> score,
     entry_price |-> nifty_price * 101,
     stop_loss |-> (AtmStrike(nifty_price) - 200) * 100,
     target |-> (AtmStrike(nifty_price) + 300) * 100]

GenerateAtmCallSignal(x) ==
    IF MeetsThreshold(AtmCallScore(x))
    THEN [outcome |-> "signal", signal |-> AtmCallSignal(x.nifty_price, AtmCallScore(x))]
    ELSE NoSignal

AtmCallInputs ==
    [nifty_price : Spots, rsi : {29, 30, 50, 70}, macd_line : {-1, 0, 1},
     macd_signal : {-2, 0}, history_len : {4, 5}, slope10 : {-2, -1, 0, 1}]

GenerateAtmCallSignalCall ==
    /\ \E x \in AtmCallInputs :
          calc' = [op |-> "generate_atm_call_signal", args |-> x,
                   score |-> AtmCallScore(x), result |-> GenerateAtmCallSignal(x)]
    /\ UNCHANGED <<schema, ledger, broker, telegram, next_id, callers, watchdog>>

(* the two tests in the other order *)
IronCondorScore_AcceptableFirst(iv_percentile) ==
    IF iv_percentile > 50 THEN 30
    ELSE IF 30 < iv_percentile /\ iv_percentile < 70 THEN 50
    ELSE -20

(* `if 30 < iv_percentile < 70 ... elif iv_percentile > 50 ... else` *)
IronCondorScore(iv_percentile) ==
    IF 30 < iv_percentile /\ iv_percentile < 70 THEN 50
    ELSE IF iv_percentile > 50 THEN 30
    ELSE -20

IronCondorSignal(nifty_price, score) ==
    [strategy |-> "IRON_CONDOR", symbol |-> "NIFTY", signal_score |-> score,
     entry_price |-> nifty_price * 100,
     stop_loss |-> AtmStrike(nifty_price) * 100,
     target |-> AtmStrike(nifty_price) * 100]

GenerateIronCondorSignal(x) ==
    IF MeetsThreshold(IronCondorScore(x.iv_percentile))
    THEN [outcome |-> "signal",
          signal |-> IronCondorSignal(x.nifty_price, IronCondorScore(x.iv_percentile))]
    ELSE NoSignal

IronCondorInputs ==
    [nifty_price : Spots, iv_percentile : {0, 30, 31, 50, 51, 69, 70, 71, 100}]

GenerateIronCondorSignalCall ==
    /\ \E x \in IronCondorInputs :
          calc' = [op |-> "generate_iron_condor_signal", args |-> x,
                   score |-> IronCondorScore(x.iv_percentile),
                   result |-> GenerateIronCondorSignal(x)]
    /\ UNCHANGED <<schema, ledger, broker, telegram, next_id, callers, watchdog>>

-----------------------------------------------------------------------------
(* calculate_greeks of src/scripts/indicators.py and of src/kite_service.py.
   A float is followed by its class only: "nan", "inf", "ninf", "zero", "pos"
   or "neg" (finite and not zero).  numpy arithmetic does not raise: a
   division by zero gives an infinity or, for 0 / 0, NaN, and the square
   root of a negative number gives NaN. *)

FNeg(a) ==
    CASE a = "pos" -> "neg" [] a = "neg" -> "pos" [] a = "inf" -> "ninf"
      [] a = "ninf" -> "inf" [] OTHER -> a

IsNegative(a) == a \in {"neg", "ninf"}
IsInfinite(a) == a \in {"inf", "ninf"}

(* np.sqrt *)
FSqrt(a) == IF a = "nan" \/ IsNegative(a) THEN "nan" ELSE a

FMul(a, b) ==
    IF a = "nan" \/ b = "nan" THEN "nan"
    ELSE IF a = "zero" \/ b = "zero"
         THEN (IF IsInfinite(a) \/ IsInfinite(b) THEN "nan" ELSE "zero")
    ELSE LET magnitude == IF IsInfinite(a) \/ IsInfinite(b) THEN "inf" ELSE "pos"
         IN  IF IsNegative(a) = IsNegative(b) THEN magnitude ELSE FNeg(magnitude)

FDiv(a, b) ==
    IF a = "nan" \/ b = "nan" THEN "nan"
    ELSE IF b = "zero" THEN (IF a = "zero" THEN "nan"
                             ELSE IF IsNegative(a) THEN "ninf" ELSE "inf")
    ELSE IF IsInfinite(b) THEN (IF IsInfinite(a) THEN "nan" ELSE "zero")
    ELSE IF a = "zero" THEN "zero"
    ELSE LET magnitude == IF IsInfinite(a) THEN "inf" ELSE "pos"
         IN  IF IsNegative(a) = IsNegative(b) THEN magnitude ELSE FNeg(magnitude)

(* scipy.stats.norm.cdf and norm.pdf *)
NormCdf(a) == IF a = "nan" THEN "nan" ELSE IF a = "ninf" THEN "zero" ELSE "pos"
NormPdf(a) == IF a = "nan" THEN "nan" ELSE IF IsInfinite(a) THEN "zero" ELSE "pos"

(* the Black-Scholes values of both implementations; numerator is the class
   of log(spot / strike) + (r + iv ** 2 / 2) * t, finite for a positive spot
   and strike; t = expiry_days / 365; a finite amount taken from x leaves
   NaN and the infinities as they are and gives "finite" otherwise; round()
   keeps NaN and the infinities *)
GreeksValues(option_type, numerator, iv, expiry_days) ==
    LET t == IF expiry_days < 0 THEN "neg"
             ELSE IF expiry_days = 0 THEN "zero" ELSE "pos"
        root == FSqrt(t)
        LessFinite(x) == IF x \in {"nan", "inf", "ninf"} THEN x ELSE "finite"
        d1 == FDiv(numerator, FMul(iv, root))
        d2 == IF FMul(iv, root) = "nan" THEN "nan" ELSE d1
        decay == FDiv(FMul(NormPdf(d1), iv), root)
        carry == NormCdf(IF option_type = "CE" THEN d2 ELSE FNeg(d2))
    IN  [delta |-> IF option_type = "CE" THEN NormCdf(d1)
                   ELSE LessFinite(NormCdf(d1)),
         gamma |-> FDiv(NormPdf(d1), FMul(iv, root)),
         theta |-> IF carry = "nan" THEN "nan" ELSE LessFinite(FNeg(decay)),
         vega |-> FMul(NormPdf(d1), root)]

GreeksInputs ==
    [option_type : {"CE", "PE"}, strike : {"zero", "pos"},
     numerator : {"neg", "zero", "pos"}, iv : {"neg", "zero", "pos"},
     expiry_days : {-1, 0, 7}]

(* OptionsGreeksAnalyzer.calculate_greeks: no try block; `self.spot / strike`
   on Python floats raises ZeroDivisionError for a strike of 0 *)
CalculateGreeks(x) ==
    IF x.strike = "zero" THEN [outcome |-> "raised", error |-> "ZeroDivisionError"]
    ELSE [outcome |-> "returned",
          greeks |-> GreeksValues(x.option_type, x.numerator, x.iv, x.expiry_days)]

(* KiteAuthenticationService.calculate_greeks: the same values inside
   try/except Exception, which raises HTTPException(500) *)
KiteCalculateGreeks(x) ==
    IF x.strike = "zero" THEN [outcome |-> "raised", error |-> "HTTPException 500"]
    ELSE [outcome |-> "returned",
          greeks |-> GreeksValues(x.option_type, x.numerator, x.iv, x.expiry_days)]

CalculateGreeksCall ==
    /\ \E x \in GreeksInputs :
          calc' = [op |-> "calculate_greeks", args |-> x, result |-> CalculateGreeks(x)]
    /\ UNCHANGED <<schema, ledger, broker, telegram, next_id, callers, watchdog>>

KiteCalculateGreeksCall ==
    /\ \E x \in GreeksInputs :
          calc' = [op |-> "kite_calculate_greeks", args |-> x,
                   result |-> KiteCalculateGreeks(x)]
    /\ UNCHANGED <<schema, ledger, broker, telegram, next_id, callers, watchdog>>

-----------------------------------------------------------------------------
(* calculate_rsi of src/nifty_strategy.py and of src/scripts/indicators.py.
   An RSI value is the exact fraction <<numerator, denominator>>; NaN is 0/0. *)

(* prices of 1, 2 or 3 *)
PriceSeries == UNION {[1..n -> 1..3] : n \in 0..MaxSeries}

NaN == <<0, 0>>

(* np.diff with np.where(deltas > 0, ...) summed over changes first..last *)
RECURSIVE SumGains(_, _, _)
SumGains(prices, first, last) ==
    IF first > last THEN 0
    ELSE (IF prices[first + 1] > prices[first]
          THEN prices[first + 1] - prices[first] ELSE 0)
         + SumGains(prices, first + 1, last)

RECURSIVE SumLosses(_, _, _)
SumLosses(prices, first, last) ==
    IF first > last THEN 0
    ELSE (IF prices[first] > prices[first + 1]
          THEN prices[first] - prices[first + 1] ELSE 0)
         + SumLosses(prices, first + 1, last)

(* NIFTYStrategyEngine.calculate_rsi; 100 - 100 / (1 + rs) is
   100 * gain / (gain + loss), the means' common divisor cancels *)
CalculateRsi(prices, period) ==
    IF Len(prices) < period + 1 THEN [outcome |-> "returned", value |-> <<50, 1>>]
    ELSE LET first == Len(prices) - period
             gain == SumGains(prices, first, Len(prices) - 1)
             loss == SumLosses(prices, first, Len(prices) - 1)
         IN  [outcome |-> "returned",
              value |-> IF loss = 0 THEN (IF gain > 0 THEN <<100, 1>> ELSE <<50, 1>>)
                        ELSE <<100 * gain, gain + loss>>]

(* talib.RSI: Wilder's smoothing from the average of the first `period`
   changes; gain and loss are kept over the common denominator scale *)
RECURSIVE WilderSmooth(_, _, _, _, _, _)
WilderSmooth(prices, period, i, gain, loss, scale) ==
    IF i > Len(prices) THEN <<gain, loss>>
    ELSE WilderSmooth(prices, period, i + 1,
                      gain * (period - 1) + SumGains(prices, i - 1, i - 1) * scale,
                      loss * (period - 1) + SumLosses(prices, i - 1, i - 1) * scale,
                      scale * period)

(* talib.RSI(prices, timeperiod=period): the first `period` outputs are NaN,
   so the whole output is NaN for fewer than period + 1 samples *)
TalibRsiLast(prices, period) ==
    IF Len(prices) < period + 1 THEN NaN
    ELSE LET smoothed == WilderSmooth(prices, period, period + 2,
                                      SumGains(prices, 1, period),
                                      SumLosses(prices, 1, period), period)
         IN  IF smoothed[1] + smoothed[2] = 0 THEN <<0, 1>>
             ELSE <<100 * smoothed[1], smoothed[1] + smoothed[2]>>

(* TechnicalIndicators.calculate_rsi: no length test; .iloc[-1] of an empty
   series raises IndexError *)
IndicatorsCalculateRsi(prices, period) ==
    IF Len(prices) = 0 THEN [outcome |-> "raised", value |-> NaN]
    ELSE [outcome |-> "returned", value |-> TalibRsiLast(prices, period)]

CalculateRsiCall ==
    /\ \E prices \in PriceSeries, period \in {2, 3} :
          calc' = [op |-> "calculate_rsi", prices |-> prices, period |-> period,
                   result |-> CalculateRsi(prices, period)]
    /\ UNCHANGED <<schema, ledger, broker, telegram, next_id, callers, watchdog>>

IndicatorsCalculateRsiCall ==
    /\ \E prices \in PriceSeries, period \in {2, 3} :
          calc' = [op |-> "indicators_calculate_rsi", prices |-> prices,
                   period |-> period, result |-> IndicatorsCalculateRsi(prices, period)]
    /\ UNCHANGED <<schema, ledger, broker, telegram, next_id, callers, watchdog>>

-----------------------------------------------------------------------------
(* src/kite_service.py: the module body up to the definition of
   KiteAuthenticationService, and the retry decorator of lines 86-102. *)

(* the arguments of line 104 *)
TOKEN_MAX_RETRIES == 3
TOKEN_RETRY_DELAY == 2

(* what the successive invocations of the wrapped function do *)
AttemptScripts == [1..TOKEN_MAX_RETRIES -> {"ok", "fail"}]

(* wrapper, lines 90-100, from iteration `attempt` of range(max_retries) on;
   invocation n returns the value n or raises the failure n; an empty range
   falls out of the loop and returns None, the value 0 *)
RECURSIVE RetryWrapper(_, _, _, _)
RetryWrapper(script, max_retries, delay, attempt) ==
    IF attempt >= max_retries
    THEN [outcome |-> "returned", value |-> 0, invocations |-> attempt,
          slept |-> attempt * delay]
    ELSE IF script[attempt + 1] = "ok"
    THEN [outcome |-> "returned", value |-> attempt + 1,
          invocations |-> attempt + 1, slept |-> attempt * delay]
    ELSE IF attempt < max_retries - 1
    THEN RetryWrapper(script, max_retries, delay, attempt + 1)
    ELSE [outcome |-> "raised", value |-> attempt + 1,
          invocations |-> attempt + 1, slept |-> attempt * delay]

(* retry_on_failure(self, max_retries=3, delay=1) called with the positional
   arguments `positional`: Python binds self to the first of them and raises
   TypeError when there is none *)
RetryOnFailure(positional, max_retries, delay) ==
    IF Len(positional) # 1
    THEN [outcome |-> "raised", error |-> "TypeError"]
    ELSE [outcome |-> "decorator",
          wrapper |-> [script \in AttemptScripts |->
                          RetryWrapper(script, max_retries, delay, 0)]]

(* the environment the module reads at lines 35-43 *)
Environments ==
    [KITE_API_KEY : {"unset", "key"}, KITE_API_SECRET : {"unset", "secret"},
     KITE_USER_ID : {"unset", "user"}, KITE_PASSWORD : {"unset", "password"},
     REDIS_HOST : {"unset", "redis"},
     REDIS_PORT : {"unset", "6379", "6380", "cache"}]

(* int(os.getenv('REDIS_PORT', 6379)) *)
PortParses(env) == env.REDIS_PORT \in {"unset", "6379", "6380"}

(* executing the module: line 42 raises ValueError for a port that is not a
   number; the class body then calls retry_on_failure(max_retries=3, delay=2)
   at line 104, as a plain function with keyword arguments only *)
LoadKiteService(env) ==
    IF ~PortParses(env) THEN [outcome |-> "raised", error |-> "ValueError"]
    ELSE LET decorator == RetryOnFailure(<<>>, TOKEN_MAX_RETRIES, TOKEN_RETRY_DELAY)
         IN  IF decorator.outcome = "raised"
             THEN [outcome |-> "raised", error |-> decorator.error]
             ELSE [outcome |-> "loaded", generate_token |-> decorator.wrapper]

LoadKiteServiceStep ==
    /\ \E env \in Environments :
          calc' = [op |-> "load_kite_service", env |-> env,
                   result |-> LoadKiteService(env)]
    /\ UNCHANGED <<schema, ledger, broker, telegram, next_id, callers, watchdog>>

-----------------------------------------------------------------------------
Next ==
    \/ \E c \in Callers : PlaceOrder(c)
    \/ \E c \in Callers : PlaceOrderNotify(c)
    \/ WatchdogCheck
    \/ SquareOffNotify
    \/ WatchdogWake

Spec == Init /\ [][Next]_vars

NextOrders ==
    \/ \E c \in Callers : PlaceOrder(c)
    \/ \E c \in Callers : PlaceOrderNotify(c)

SpecOrders == InitOrders /\ [][NextOrders]_vars

NextWatchdog ==
    \/ WatchdogCheck
    \/ SquareOffNotify
    \/ WatchdogWake

SpecWatchdog == InitWatchdogOnly /\ [][NextWatchdog]_vars

(* the event loop resumes a coroutine that is ready: the watchdog's check
   runs once asyncio.sleep has returned, a telegram send ends (by returning
   or by raising), and the timer of asyncio.sleep(60) expires *)
SpecWatchdogFair ==
    /\ SpecWatchdog
    /\ WF_vars(WatchdogCheck)
    /\ WF_vars(SquareOffNotify)
    /\ WF_vars(WatchdogWake)

NextRisk == CheckRiskLimitsCall

SpecRisk == InitRisk /\ [][NextRisk]_vars

(* calculate_position_size called over a ledger with 0 to 3 earlier trades;
   it reads no column the schema leaves open *)
InitSize ==
    /\ account_default = ACCOUNT_ID
    /\ positions_is_view = TRUE
    /\ paper_trading = TRUE
    /\ min_signal_score = DEFAULT_MIN_SIGNAL_SCORE
    /\ \E closed \in InitClosedSoFar : InitLedger(closed, 0)
    /\ InitExecutor(0)
    /\ InitWatchdog(FALSE)

NextSize == CalculatePositionSizeCall

SpecSize == InitSize /\ [][NextSize]_vars

(* the strategy engine holds no ledger, broker or watchdog state *)
InitEngine ==
    /\ account_default = ACCOUNT_ID
    /\ positions_is_view = TRUE
    /\ paper_trading = TRUE
    /\ min_signal_score = DEFAULT_MIN_SIGNAL_SCORE
    /\ InitLedger({}, 0)
    /\ InitExecutor(0)
    /\ InitWatchdog(FALSE)

NextValidate == ValidateSignalCall

SpecValidate == InitEngine /\ [][NextValidate]_vars

(* the engine constructed with some threshold *)
InitGenerators ==
    /\ account_default = ACCOUNT_ID
    /\ positions_is_view = TRUE
    /\ paper_trading = TRUE
    /\ min_signal_score \in MinSignalScores
    /\ InitLedger({}, 0)
    /\ InitExecutor(0)
    /\ InitWatchdog(FALSE)

NextGenerators ==
    \/ GenerateAtmCallSignalCall
    \/ GenerateIronCondorSignalCall

SpecGenerators == InitGenerators /\ [][NextGenerators]_vars

NextGreeks ==
    \/ CalculateGreeksCall
    \/ KiteCalculateGreeksCall

SpecGreeks == InitEngine /\ [][NextGreeks]_vars

NextRsi ==
    \/ CalculateRsiCall
    \/ IndicatorsCalculateRsiCall

SpecRsi == InitEngine /\ [][NextRsi]_vars

NextKiteService == LoadKiteServiceStep

SpecKiteService == InitEngine /\ [][NextKiteService]_vars

NextComposite == GenerateCompositeSignalCall

SpecComposite == InitEngine /\ [][NextComposite]_vars

-----------------------------------------------------------------------------
(* Properties *)

TradesToday == {r \in trades : r.today}

(* C1: whenever check_risk_limits returns, allowed is exactly
   (daily_pnl > -20000 and trades_today < 3 and open_positions < 4) and
   circuit_breaker_hit is exactly (daily_pnl <= -20000), for the daily pnl,
   trade count and open-position count of the ledger it read; so allowed is
   false whenever daily_pnl <= -20000. *)
C1_RiskLimits ==
    risk_check.outcome = "ok" =>
        LET s == risk_check.snapshot
            daily_pnl == DailyPnl("ACCOUNT_ID")
            trades_today == TradeCount("ACCOUNT_ID")
            open_positions == Cardinality(OpenPositions("ACCOUNT_ID"))
        IN  /\ s.daily_pnl = daily_pnl
            /\ s.allowed = (daily_pnl > -20000 /\ trades_today < 3 /\ open_positions < 4)
            /\ s.circuit_breaker_hit = (daily_pnl <= -20000)
            /\ (daily_pnl <= -20000 => ~s.allowed)

(* the breaker alone closes the gate: daily pnl -20001 with the trade count
   and the open positions under their caps *)
C1_Witness ==
    /\ risk_check.outcome = "ok"
    /\ risk_check.snapshot.daily_pnl = -20001
    /\ risk_check.snapshot.trades_remaining > 0
    /\ risk_check.snapshot.position_slots_remaining > 0
    /\ ~risk_check.snapshot.allowed
    /\ risk_check.snapshot.circuit_breaker_hit

(* C2: a place_order call sends a broker order, writes a trade row or goes
   on to its notification only when the check_risk_limits it ran itself, on
   the ledger as it was at the call, returned allowed; when the check raised
   or returned not allowed the call fails and leaves broker, ledger and
   telegram as they were. *)
C2_GateBeforeOrder ==
    [][ calls' = calls + 1 =>
          LET passed == /\ risk_check'.outcome = "ok"
                        /\ risk_check'.snapshot.allowed
                        /\ risk_check'.snapshot.trades_remaining
                             = 3 - Cardinality({r \in trades :
                                     r.account_id = "ACCOUNT_ID" /\ r.today})
          IN  /\ (broker_entries' # broker_entries \/ trades' # trades \/ pc' # pc)
                    => passed
              /\ ~passed =>
                    /\ result'.status = "FAILED"
                    /\ UNCHANGED <<broker, ledger, telegram, pc>> ]_vars

(* an order was placed earlier and a later call was turned down by the gate *)
C2_Witness ==
    /\ Len(broker_entries) > 0
    /\ risk_check.outcome = "ok"
    /\ ~risk_check.snapshot.allowed
    /\ result.status = "FAILED"

(* C3: no more than MAX_TRADES_PER_DAY (3) trades are placed on one day:
   every trade row written today is counted by the later checks. *)
C3_AtMostThreeTradesPerDay == Cardinality(TradesToday) <= 3

(* C4: two place_order calls never are both past the risk check with their
   orders placed while the day's trades exceed 3 or the open trades exceed 4. *)
C4_NoJointCapViolation ==
    \A c1, c2 \in Callers :
        (c1 # c2 /\ pc[c1] = "notify" /\ pc[c2] = "notify") =>
            /\ Cardinality(TradesToday) <= 3
            /\ Cardinality({r \in trades \cup positions_table : r.status = "OPEN"}) <= 4

(* C5: a square-off in the window that does not fail and leaves none of
   the positions it iterated open has closed, with an exit time, every trade
   place_order placed. *)
C5_PlacedTradesSquaredOff ==
    [][ ( /\ wd_pc = "check"
          /\ wd_pc' # "check"
          /\ 55740 <= now /\ now <= 55800
          /\ (wd_pc' = "notify" \/ sq_result'.status = "OK")
          /\ OpenPositions("ACCOUNT_ID")' = {} )
        => \A r \in trades' : r.today => (r.status = "CLOSED" /\ r.exited) ]_vars

(* a broker entry order without a trade row *)
Orphaned ==
    \E i \in 1..Len(broker_entries) :
        \A r \in trades : r.order_id # broker_entries[i].order_id

(* C6: once an order accepted by the broker has no trade row, no later
   place_order sends an order. *)
C6_HaltAfterInconsistency ==
    [][ Orphaned => broker_entries' = broker_entries ]_vars

(* C7: a call rejected by the risk gate fails with an outcome other than
   the status 500 reported for unexpected errors. *)
C7_RejectionDistinguishable ==
    [][ ( /\ calls' = calls + 1
          /\ risk_check'.outcome = "ok"
          /\ ~risk_check'.snapshot.allowed )
        => (result'.status = "FAILED" /\ result'.status_code # 500) ]_vars

(* C8: a place_order whose order is placed and recorded returns the PLACED
   receipt with its order id, whatever the notification send does. *)
C8_NotificationFailureHarmless ==
    [][ \A c \in Callers :
          (pc[c] = "notify" /\ pc'[c] = "idle") =>
             /\ result'.status = "PLACED"
             /\ result'.order_id = order[c][1].order_id
             /\ \E r \in trades' : r.order_id = order[c][1].order_id ]_vars

(* C9: a watchdog check calls auto_square_off_positions if and only if
   15:29:00 <= now <= 15:30:00, and a check outside the window leaves the
   ledger and the broker as they were. *)
C9_SquareOffIffInWindow ==
    [][ (wd_pc = "check" /\ wd_pc' # "check") =>
          /\ wd_invoked' <=> (55740 <= now /\ now <= 55800)
          /\ ~(55740 <= now /\ now <= 55800) => UNCHANGED <<ledger, broker>> ]_vars

(* the check at 15:30:00 sharp squared a position off *)
C9_Witness ==
    /\ wd_pc # "check"
    /\ now = 55800
    /\ wd_invoked
    /\ \E i \in 1..Len(broker_exits) : TRUE
    /\ \E r \in Positions : r.status = "CLOSED" /\ ~r.today

(* C10: when the watchdog has reached a check after 15:30:00, one of its
   checks fell in the window. *)
C10_WindowNeverMissed ==
    (wd_pc # "off" /\ now > 55800) => window_checks >= 1

(* C11: once started the watchdog is never in a terminal state: it is always
   at a check, inside a square-off or in its pause; every check, also one
   whose square-off raised, is followed by the pause, and every pause that
   begins up to the close is followed by another check. *)
C11_WatchdogNeverStops ==
    /\ [](wd_pc \in {"check", "notify", "sleep"})
    /\ (wd_pc = "check") ~> (wd_pc = "sleep")
    /\ (wd_pc = "sleep" /\ now <= 55800) ~> (wd_pc = "check")

(* the watchdog is at a check again after a square-off that raised *)
C11_Witness ==
    /\ wd_pc = "check"
    /\ now > wd_start
    /\ sq_result.status = "FAILED"
    /\ window_checks >= 1

(* C12: when the exit call of one OPEN position raises and nothing else of
   the square-off does, every other position that was OPEN at the start of
   the call gets exactly one market exit on the opposite side (SELL for
   quantity > 0, BUY otherwise) for |quantity|, is marked CLOSED with an exit
   time, and the call goes on to its notification or its return. *)
C12_ContinuesPastFailedExit ==
    [][ ( /\ wd_pc = "check"
          /\ wd_pc' # "check"
          /\ wd_invoked'
          /\ \E bad \in OpenPositions("ACCOUNT_ID") :
                 sq_log' = {<<bad.id, "exit_raises">>} )
        => /\ \A p \in OpenPositions("ACCOUNT_ID") :
                 <<p.id, "exit_raises">> \notin sq_log' =>
                   /\ Cardinality({i \in (Len(broker_exits) + 1)..Len(broker_exits') :
                         broker_exits'[i] =
                           [kind |-> "EXIT", position |-> p.id, symbol |-> p.symbol,
                            side |-> IF p.quantity > 0 THEN "SELL" ELSE "BUY",
                            quantity |-> IF p.quantity > 0 THEN p.quantity
                                         ELSE 0 - p.quantity]}) = 1
                   /\ \E r \in Positions' :
                         r.id = p.id /\ r.status = "CLOSED" /\ r.exited
           /\ \/ wd_pc' = "notify"
              \/ wd_pc' = "sleep" /\ sq_result'.status = "OK" ]_vars

(* the long leg's exit raised; the short leg was bought back and closed *)
C12_Witness ==
    /\ \E bad \in OpenPositions("ACCOUNT_ID") :
          bad.quantity > 0 /\ sq_log = {<<bad.id, "exit_raises">>}
    /\ \E i \in 1..Len(broker_exits) :
          broker_exits[i].side = "BUY" /\ broker_exits[i].quantity = 1
    /\ \E r \in Positions : r.quantity < 0 /\ r.status = "CLOSED" /\ r.exited
    /\ wd_pc = "notify"

(* C13: when exactly one leg's exit call raises and nothing else of the
   square-off does, every position that was OPEN at the start is CLOSED
   afterwards, and a result returned by that call names the failed leg's
   symbol in a part of its own, apart from the closed symbols. *)
C13_AllClosedAndFailureReported ==
    [][ \A bad \in OpenPositions("ACCOUNT_ID") :
          ( /\ wd_pc = "check"
            /\ wd_pc' # "check"
            /\ wd_invoked'
            /\ sq_log' = {<<bad.id, "exit_raises">>} )
          => /\ \A p \in OpenPositions("ACCOUNT_ID") :
                   \E r \in Positions' : r.id = p.id /\ r.status = "CLOSED"
             /\ (wd_pc' = "sleep" /\ sq_result'.status = "OK") =>
                   /\ "not_closed" \in DOMAIN sq_result'
                   /\ bad.symbol \in sq_result'.not_closed ]_vars

(* C14: no position is closed twice: the broker never holds two exit orders
   for one position, and a row that is CLOSED is not written again. *)
C14_NoDoubleClose ==
    [][ /\ \A i, j \in 1..Len(broker_exits') :
              broker_exits'[i].position = broker_exits'[j].position => i = j
        /\ \A r \in Positions : r.status = "CLOSED" => r \in Positions' ]_vars

(* C15: calculate_position_size returns, and never more than
   MAX_POSITION_SIZE (1), whatever the balance, the entry and stop prices
   (entry = stop too) and the ledger history (an empty one too). *)
C15_SizeAtMostOne ==
    calc.op = "calculate_position_size" =>
        /\ calc.result.outcome = "returned"
        /\ calc.result.size <= 1

(* the cap acted: 2 percent of 400 over one point is 8 lots, a quarter of
   it 2; the symbol has no trade in the ledger *)
C15_Witness ==
    /\ calc.op = "calculate_position_size"
    /\ calc.readable
    /\ calc.account_balance = 400
    /\ calc.entry_price - calc.stop_loss_price = 1
    /\ \A r \in trades : r.symbol # calc.symbol
    /\ calc.result.size = 1

(* C16: when the ledger query fails or entry price = stop price,
   calculate_position_size does not raise and returns exactly 1. *)
C16_FailureReturnsOne ==
    ( /\ calc.op = "calculate_position_size"
      /\ (~calc.readable \/ calc.entry_price = calc.stop_loss_price) )
    => calc.result = [outcome |-> "returned", size |-> 1]

(* entry = stop on a readable ledger, with a balance whose size would
   otherwise be 0 *)
C16_Witness ==
    /\ calc.op = "calculate_position_size"
    /\ calc.readable
    /\ calc.entry_price = calc.stop_loss_price
    /\ calc.account_balance = 50
    /\ calc.result.size = 1

(* C17 as stated: for entry # stop and a readable ledger the result is
   min(floor((balance * 0.02 / |entry - stop|) * 0.25), 1), for negative
   balances too. *)
C17_SizeIsFloorOfFormula ==
    ( /\ calc.op = "calculate_position_size"
      /\ calc.readable
      /\ calc.entry_price # calc.stop_loss_price )
    => LET d == IF calc.entry_price > calc.stop_loss_price
                THEN calc.entry_price - calc.stop_loss_price
                ELSE calc.stop_loss_price - calc.entry_price
           floor == (calc.account_balance * 2 * 25) \div (100 * 100 * d)
       IN  calc.result.size = IF floor <= 1 THEN floor ELSE 1

(* C17, amended: the same for balances >= 0, where the two truncations
   equal the single floor. *)
C17_SizeIsFloorForNonNegative ==
    ( /\ calc.op = "calculate_position_size"
      /\ calc.readable
      /\ calc.entry_price # calc.stop_loss_price
      /\ calc.account_balance >= 0 )
    => LET d == IF calc.entry_price > calc.stop_loss_price
                THEN calc.entry_price - calc.stop_loss_price
                ELSE calc.stop_loss_price - calc.entry_price
           floor == (calc.account_balance * 2 * 25) \div (100 * 100 * d)
       IN  calc.result.size = IF floor <= 1 THEN floor ELSE 1

(* both truncations drop a fraction: 2 percent of 350 over 2 points is 3.5,
   truncated to 3, a quarter of it 0.75, truncated to 0 *)
C17_Witness ==
    /\ calc.op = "calculate_position_size"
    /\ calc.readable
    /\ calc.account_balance = 350
    /\ calc.stop_loss_price - calc.entry_price = 2
    /\ calc.result.size = 0

(* C18: in paper mode no order ever reaches the broker, while place_order
   runs the same path as in live mode: it runs check_risk_limits, is rejected
   by the gate exactly when the ledger fails (daily_pnl > -20000 and
   trades_today < 3 and open_positions < 4), whatever the mode, and when it
   passes it writes an OPEN trade row under a PAPER order id and goes on to
   the notification (unless the ledger write itself raises); a square-off in
   paper mode marks every leg whose UPDATE did not raise CLOSED, with an exit
   time, once its commit succeeds. *)
C18_PaperRunsFullPath ==
    [][ /\ paper_trading => (broker_entries' = <<>> /\ broker_exits' = <<>>)
        /\ calls' = calls + 1 =>
              LET passes == /\ DailyPnl("ACCOUNT_ID") > -20000
                            /\ TradeCount("ACCOUNT_ID") < 3
                            /\ Cardinality(OpenPositions("ACCOUNT_ID")) < 4
                  rejected == /\ result'.status = "FAILED"
                              /\ \E hit \in BOOLEAN : result'.detail[2] =
                                    <<403, "Trading not allowed. Circuit breaker", hit>>
              IN  /\ risk_check'.outcome \in {"ok", "raised"}
                  /\ risk_check'.outcome = "ok" => (rejected <=> ~passes)
                  /\ (paper_trading /\ risk_check'.outcome = "ok" /\ passes) =>
                        \/ /\ \E c \in Callers : pc[c] = "idle" /\ pc'[c] = "notify"
                           /\ \E r \in trades' \ trades :
                                 /\ trades' = trades \cup {r}
                                 /\ r.order_id[1] = "PAPER"
                                 /\ r.status = "OPEN"
                        \/ /\ result'.status = "FAILED"
                           /\ trades' = trades
        /\ ( /\ paper_trading
             /\ wd_pc = "check"
             /\ wd_pc' # "check"
             /\ wd_invoked'
             /\ \A e \in sq_log' : e[1] # 0 )
           => \A p \in OpenPositions("ACCOUNT_ID") :
                 <<p.id, "update_raises">> \notin sq_log' =>
                    \E r \in Positions' :
                        r.id = p.id /\ r.status = "CLOSED" /\ r.exited ]_vars

(* a paper trade was placed, notified and squared off by the watchdog, and
   the broker saw nothing *)
C18_Witness ==
    /\ paper_trading
    /\ \E r \in trades :
          r.order_id[1] = "PAPER" /\ r.today /\ r.status = "CLOSED" /\ r.exited
    /\ telegram >= 2
    /\ result.status = "PLACED"
    /\ broker_entries = <<>>
    /\ broker_exits = <<>>

(* C19: validate_signal rejects (returns False for) every signal when the
   time is less than 30 minutes after 09:15 or less than 30 minutes from
   15:30, whatever the score, and every ATM_CALL signal whose target is not
   above its entry price. *)
C19_RejectsNearOpenAndClose ==
    calc.op = "validate_signal" =>
        LET t == calc.now.hour * 3600 + calc.now.minute * 60 + calc.now.second
            near_open == 33300 <= t /\ t < 33300 + 1800
            near_close == 55800 - 1800 < t /\ t < 55800 + 1800
            bad_target == /\ calc.signal.strategy = "ATM_CALL"
                          /\ calc.signal.target <= calc.signal.entry_price
        IN  (near_open \/ near_close \/ bad_target)
               => calc.result = [outcome |-> "returned", value |-> FALSE]

(* C20: the five sub-scores lie in {100,0,-100}, {80,0,-80}, {70,0,-70},
   {90,-90} and {85,0,-85}; with the weights 0.20, 0.25, 0.15, 0.20, 0.20,
   which sum to 1, generate_composite_signal returns BUY iff
   total_score >= 50, SELL iff total_score <= -50 and NEUTRAL iff
   |total_score| < 50, with confidence min(|total_score|, 100) for BUY and
   SELL and 100 - |total_score| for NEUTRAL, always within [0, 100]
   (scores and confidence in hundredths). *)
C20_CompositeSignal ==
    calc.op = "generate_composite_signal" =>
        LET r == calc.result
            score(i) == r.signals[i][2]
            total == 20 * score(1) + 25 * score(2) + 15 * score(3)
                       + 20 * score(4) + 20 * score(5)
            size == IF total < 0 THEN 0 - total ELSE total
        IN  /\ score(1) \in {100, 0, -100}
            /\ score(2) \in {80, 0, -80}
            /\ score(3) \in {70, 0, -70}
            /\ score(4) \in {90, -90}
            /\ score(5) \in {85, 0, -85}
            /\ 20 + 25 + 15 + 20 + 20 = 100
            /\ r.total_score = total
            /\ r.action = "BUY" <=> total >= 5000
            /\ r.action = "SELL" <=> total <= -5000
            /\ r.action = "NEUTRAL" <=> size < 5000
            /\ r.action \in {"BUY", "SELL"} =>
                  r.confidence = IF size <= 10000 THEN size ELSE 10000
            /\ r.action = "NEUTRAL" => r.confidence = 10000 - size
            /\ 0 <= r.confidence /\ r.confidence <= 10000

(* the weakest BUY: rsi oversold, supertrend up and an EMA cross, the other
   two neutral, give 20 + 18 + 17 = 55 *)
C20_Witness ==
    /\ calc.op = "generate_composite_signal"
    /\ calc.readings.rsi = 29
    /\ calc.result.total_score = 5500
    /\ calc.result.action = "BUY"
    /\ calc.result.confidence = 5500

(* C21 as stated: each generator returns a signal iff its score is
   >= min_signal_score, None otherwise, and a returned signal carries a
   signal_score in [0, 100], for every min_signal_score. *)
C21_SignalIffScoreAndInRange ==
    calc.op \in {"generate_atm_call_signal", "generate_iron_condor_signal"} =>
        /\ calc.result.outcome = "signal" <=> calc.score >= min_signal_score
        /\ calc.result.outcome # "signal" => calc.result = [outcome |-> "none"]
        /\ calc.result.outcome = "signal" =>
              /\ calc.result.signal.signal_score = calc.score
              /\ 0 <= calc.result.signal.signal_score
              /\ calc.result.signal.signal_score <= 100

(* C21, amended: the same, the range [0, 100] claimed for thresholds
   min_signal_score >= 0 only. *)
C21_SignalIffScoreInRangeForNonNegative ==
    calc.op \in {"generate_atm_call_signal", "generate_iron_condor_signal"} =>
        /\ calc.result.outcome = "signal" <=> calc.score >= min_signal_score
        /\ calc.result.outcome # "signal" => calc.result = [outcome |-> "none"]
        /\ calc.result.outcome = "signal" =>
              /\ calc.result.signal.signal_score = calc.score
              /\ min_signal_score >= 0 =>
                    /\ 0 <= calc.result.signal.signal_score
                    /\ calc.result.signal.signal_score <= 100

(* the highest ATM call score, 35 + 25 + 25, meets a threshold of 85 *)
C21_Witness ==
    /\ calc.op = "generate_atm_call_signal"
    /\ min_signal_score = 85
    /\ calc.result.outcome = "signal"
    /\ calc.result.signal.signal_score = 85

(* C22: for expiry_days <= 0 or an implied volatility <= 0 the Greeks
   computation ends with an error and returns no result. *)
C22_GreeksFailFast ==
    ( /\ calc.op \in {"calculate_greeks", "kite_calculate_greeks"}
      /\ (calc.args.expiry_days <= 0 \/ calc.args.iv \in {"zero", "neg"}) )
    => calc.result.outcome = "raised"

(* C23: for every price series with fewer than period + 1 samples
   calculate_rsi returns exactly 50.0 and does not fail. *)
C23_ShortSeriesGivesFifty ==
    ( /\ calc.op \in {"calculate_rsi", "indicators_calculate_rsi"}
      /\ Len(calc.prices) < calc.period + 1 )
    => calc.result = [outcome |-> "returned", value |-> <<50, 1>>]

(* C24: generate_token runs under the retry policy: whatever its successive
   attempts do, it is invoked at least once and at most max_retries (3)
   times, the first successful attempt is returned with no further attempt,
   the delay is waited between attempts, and after 3 failures the last
   failure is raised. *)
C24_BoundedRetry ==
    (calc.op = "load_kite_service" /\ PortParses(calc.env)) =>
        /\ calc.result.outcome = "loaded"
        /\ \A script \in AttemptScripts :
              LET run == calc.result.generate_token[script]
                  successes == {n \in 1..TOKEN_MAX_RETRIES : script[n] = "ok"}
              IN  /\ run.invocations \in 1..TOKEN_MAX_RETRIES
                  /\ run.slept = (run.invocations - 1) * TOKEN_RETRY_DELAY
                  /\ successes # {} =>
                        /\ run.outcome = "returned"
                        /\ run.value \in successes
                        /\ \A n \in successes : run.value <= n
                        /\ run.invocations = run.value
                  /\ successes = {} =>
                        /\ run.outcome = "raised"
                        /\ run.value = TOKEN_MAX_RETRIES
                        /\ run.invocations = TOKEN_MAX_RETRIES

(* C25: in live mode a square-off marks a position CLOSED only if the broker
   took that position's exit order in the same call; a position whose exit
   call raised stays OPEN with no exit time; and the list squared_off the
   call hands on, its count being its length, holds exactly the symbols of
   the positions the call marked CLOSED, once for each. *)
C25_ClosedOnlyAfterExit ==
    [][ /\ ( /\ ~paper_trading
             /\ wd_pc = "check"
             /\ wd_pc' # "check"
             /\ wd_invoked' )
           => LET open == OpenPositions(ACCOUNT_ID)
                  marked == {q \in open : \E r \in Positions' :
                                r.id = q.id /\ r.status = CLOSED}
                  handed == IF wd_pc' = "notify" THEN sq_pending'
                            ELSE sq_result'.squared_off
              IN  /\ \A r \in Positions' \ Positions :
                        r.status = CLOSED /\ r.exited /\ \E q \in marked : q.id = r.id
                  /\ \A q \in marked :
                        \E i \in (Len(broker_exits) + 1)..Len(broker_exits') :
                            broker_exits'[i].position = q.id
                  /\ \A q \in open :
                        <<q.id, "exit_raises">> \in sq_log' =>
                            /\ q \in Positions'
                            /\ q.status = OPEN
                            /\ ~q.exited
                  /\ (wd_pc' = "notify" \/ sq_result'.status = "OK") =>
                        \A symbol \in {q.symbol : q \in open} :
                            Cardinality({i \in 1..Len(handed) : handed[i] = symbol})
                              = Cardinality({q \in marked : q.symbol = symbol})
                  /\ (wd_pc' = "sleep" /\ sq_result'.status = "OK") =>
                        /\ Len(handed) = Cardinality(marked)
                        /\ sq_result'.count = Len(handed)
        /\ (wd_pc = "notify" /\ sq_result'.status = "OK") =>
              /\ sq_result'.squared_off = sq_pending
              /\ sq_result'.count = Len(sq_pending) ]_vars

(* live mode: one leg's exit call raised and the leg is still OPEN, the
   other leg was closed, and the call returned the closed leg alone *)
C25_Witness ==
    /\ ~paper_trading
    /\ wd_pc = "sleep"
    /\ sq_result.status = "OK"
    /\ sq_result.count = 1
    /\ \E bad \in OpenPositions(ACCOUNT_ID) :
          /\ <<bad.id, "exit_raises">> \in sq_log
          /\ ~bad.exited
          /\ \A i \in 1..Len(broker_exits) : broker_exits[i].position # bad.id
          /\ \E r \in Positions :
                /\ r.status = CLOSED
                /\ r.id # bad.id
                /\ sq_result.squared_off = <<r.symbol>>
                /\ \E i \in 1..Len(broker_exits) : broker_exits[i].position = r.id

(* C26: every entry order place_order sends to the broker and every trade
   row it writes has a quantity of at most MAX_POSITION_SIZE (1 lot),
   whatever quantity the caller passes. *)
C26_OrdersWithinOneLot ==
    /\ \A i \in 1..Len(broker_entries) :
          broker_entries[i].quantity <= MAX_POSITION_SIZE
    /\ \A r \in trades : r.id < next_id => r.quantity <= MAX_POSITION_SIZE

(* C27: validate_signal returns True only when the clock reads a time in
   [09:45:00, 15:00:00]; before the 09:15 open and after the 15:30 close it
   rejects every signal. *)
C27_TrueOnlyInsideSession ==
    (calc.op = "validate_signal" /\ calc.result = Returned(TRUE)) =>
        LET seconds == calc.now.hour * 3600 + calc.now.minute * 60 + calc.now.second
        IN  /\ 9 * 3600 + 45 * 60 <= seconds
            /\ seconds <= 15 * 3600

(* C28: every ATM_CALL signal generate_atm_call_signal returns has
   stop_loss < entry_price < target, for every positive spot price, so that
   validate_signal's target-above-entry test never rejects it. *)
C28_StopBelowEntryBelowTarget ==
    ( /\ calc.op = "generate_atm_call_signal"
      /\ calc.result.outcome = "signal" )
    => /\ calc.result.signal.stop_loss < calc.result.signal.entry_price
       /\ calc.result.signal.entry_price < calc.result.signal.target
       /\ ~TargetBelowEntry(calc.result.signal)

(* C29: the size calculate_position_size returns depends on the balance, the
   entry price and the stop price only: two calls with the same three
   arguments over a readable ledger return the same size, whatever the win
   rates the 30-day history gives them. *)
C29_SizeIgnoresWinRate ==
    [][ ( /\ calc.op = "calculate_position_size"
          /\ calc'.op = "calculate_position_size"
          /\ calc.readable
          /\ calc'.readable
          /\ calc'.account_balance = calc.account_balance
          /\ calc'.entry_price = calc.entry_price
          /\ calc'.stop_loss_price = calc.stop_loss_price )
        => calc'.result = calc.result ]_vars

(* a call for a symbol that won one trade of two, in a ledger where the
   other symbol's win rate is 1: 2 percent of 200 over one point is 4 lots,
   a quarter of it the 1 lot returned; half of it would have given none *)
C29_Witness ==
    /\ calc.op = "calculate_position_size"
    /\ calc.readable
    /\ calc.win_rate = <<1, 2>>
    /\ \E other \in Symbols : WinRate(other) = <<1, 1>>
    /\ calc.account_balance = 200
    /\ calc.entry_price - calc.stop_loss_price = 1
    /\ calc.result.size = 1

(* C30: generate_iron_condor_signal scores 50 for 30 < iv_percentile < 70,
   30 for iv_percentile >= 70 and -20 for iv_percentile <= 30; with the
   default min_signal_score of 70 it therefore returns None for every
   iv_percentile and spot price; and an iv_percentile between 50 and 70
   never scores 30. *)
C30_IronCondorNeverSignalsByDefault ==
    calc.op = "generate_iron_condor_signal" =>
        LET iv == calc.args.iv_percentile
        IN  /\ calc.score \in {50, 30, -20}
            /\ calc.score = 50 <=> (30 < iv /\ iv < 70)
            /\ calc.score = 30 <=> iv >= 70
            /\ calc.score = -20 <=> iv <= 30
            /\ min_signal_score = 70 => calc.result = [outcome |-> "none"]
            /\ (50 < iv /\ iv < 70) => calc.score # 30

(* the default threshold, an iv_percentile of 51: both tests of the code
   are true of it, the score is the first one's 50, and None is returned *)
C30_Witness ==
    /\ calc.op = "generate_iron_condor_signal"
    /\ min_signal_score = 70
    /\ calc.args.iv_percentile = 51
    /\ calc.score = 50
    /\ calc.result.outcome = "none"

====
